---- MODULE Spec2Model ----
(***************************************************************************)
(* Model of util/classification/models.py: the three model factories       *)
(* baseline_nn_model, resnet and simple_combine_model.  Each model() call  *)
(* is a straight-line program; pc names the statement about to run.        *)
(* Layers are records, the network under construction is the sequence of   *)
(* layers in the order they are added (Sequential.add) or applied (X = ..).*)
(***************************************************************************)
EXTENDS Integers, Sequences, FiniteSets, TLC

VARIABLES cls, cfg, pc, model, inputs, layers, optimizer, compiled,
          scope_enters, scope_exits, shape, pool_size, i, exc, outcome

vars == <<cls, cfg, pc, model, inputs, layers, optimizer, compiled,
          scope_enters, scope_exits, shape, pool_size, i, exc, outcome>>

-----------------------------------------------------------------------------
(* Bounds of the explored configurations.                                   *)

MaxPixels == 6
MaxInput == 6
MaxLen == 2
MaxChannels == 2
MaxClasses == 2

(* Learning rates in units of 1e-5 (the default 5e-5 is 5), dropout rates  *)
(* in hundredths (the default -1 is -100).                                 *)
LrChoices == {5, 100}
DropoutChoices == {-100, 0, 20, 50}

-----------------------------------------------------------------------------
(* Python helpers.                                                          *)

DigitChars == <<"0", "1", "2", "3", "4", "5", "6", "7", "8", "9">>

RECURSIVE str(_)
str(n) == IF n < 10 THEN DigitChars[n + 1]
          ELSE str(n \div 10) \o DigitChars[(n % 10) + 1]

ascii_lowercase == <<"a", "b", "c", "d", "e", "f", "g", "h", "i", "j", "k",
                     "l", "m", "n", "o", "p", "q", "r", "s", "t", "u", "v",
                     "w", "x", "y", "z">>

(* Variant of HalfPixels: halving applied to the index of the last pixel.   *)
HalfPixelsOffByOne(used_pixels) == (used_pixels - 1) \div 2

(* int(x/2): true division followed by truncation toward zero.             *)
HalfPixels(used_pixels) ==
    IF used_pixels >= 0 THEN used_pixels \div 2 ELSE -((-used_pixels) \div 2)

-----------------------------------------------------------------------------
(* Layer and optimizer constructors.  input_dim is <<>> when not given.    *)

Dense(units, input_dim, kernel_initializer, activation, name) ==
    [layer |-> "Dense", units |-> units, input_dim |-> input_dim,
     kernel_initializer |-> kernel_initializer, activation |-> activation,
     name |-> name]

Dropout(rate) == [layer |-> "Dropout", rate |-> rate]

Adam(lr) == [optimizer |-> "Adam", lr |-> lr]

Compile(opt) ==
    [loss |-> "categorical_crossentropy", optimizer |-> opt, metrics |-> <<"acc">>]

-----------------------------------------------------------------------------
(* Statement helpers shared by the three factories.                        *)

Goto(c, from, to) == cls = c /\ pc = from /\ outcome = "running" /\ pc' = to

Add(layer) == layers' = Append(layers, layer)

ScopeOpen == scope_enters > scope_exits

(* with strategy.scope(): __enter__ *)
EnterScope(c, from, to) ==
    /\ Goto(c, from, to)
    /\ scope_enters' = scope_enters + 1
    /\ UNCHANGED <<cls, cfg, model, inputs, layers, optimizer, compiled,
                   scope_exits, shape, pool_size, i, exc, outcome>>

(* with strategy.scope(): __exit__, on the normal path and on an exception  *)
(* raised in the body, which then propagates out of model().               *)
ExitScope(c) ==
    /\ cls = c /\ pc = "exit" /\ outcome = "running"
    /\ scope_exits' = scope_exits + 1
    /\ IF exc = "None"
         THEN pc' = "return" /\ outcome' = outcome
         ELSE pc' = "done" /\ outcome' = "raised"
    /\ UNCHANGED <<cls, cfg, model, inputs, layers, optimizer, compiled,
                   scope_enters, shape, pool_size, i, exc>>

(* model = Sequential() *)
NewSequential(c, from, to) ==
    /\ Goto(c, from, to)
    /\ model' = "Sequential"
    /\ layers' = <<>>
    /\ UNCHANGED <<cls, cfg, inputs, optimizer, compiled, scope_enters,
                   scope_exits, shape, pool_size, i, exc, outcome>>

(* model.add(layer) *)
ModelAdd(c, from, to, layer) ==
    /\ Goto(c, from, to)
    /\ Add(layer)
    /\ UNCHANGED <<cls, cfg, model, inputs, optimizer, compiled, scope_enters,
                   scope_exits, shape, pool_size, i, exc, outcome>>

Skip(c, from, to) ==
    /\ Goto(c, from, to)
    /\ UNCHANGED <<cls, cfg, model, inputs, layers, optimizer, compiled,
                   scope_enters, scope_exits, shape, pool_size, i, exc, outcome>>

(* optimizer = Adam(lr=lr) *)
NewAdam(c, from, to) ==
    /\ Goto(c, from, to)
    /\ optimizer' = <<Adam(cfg.lr)>>
    /\ UNCHANGED <<cls, cfg, model, inputs, layers, compiled, scope_enters,
                   scope_exits, shape, pool_size, i, exc, outcome>>

(* model.compile(loss=..., optimizer=optimizer, metrics=['acc']) *)
ModelCompile(c, from, to) ==
    /\ Goto(c, from, to)
    /\ compiled' = Append(compiled, Compile(optimizer[1]))
    /\ UNCHANGED <<cls, cfg, model, inputs, layers, optimizer, scope_enters,
                   scope_exits, shape, pool_size, i, exc, outcome>>

(* return model *)
ReturnModel(c) ==
    /\ Goto(c, "return", "done")
    /\ outcome' = "returned"
    /\ UNCHANGED <<cls, cfg, model, inputs, layers, optimizer, compiled,
                   scope_enters, scope_exits, shape, pool_size, i, exc>>

(* Variant of RaiseInScope: the exception leaves model() without the        *)
(* scope's __exit__ (scope entered and left by hand, no with statement).   *)
RaiseSkippingExit(c, at) ==
    /\ cls = c /\ pc \in at /\ outcome = "running"
    /\ exc' = "Exception"
    /\ pc' = "done"
    /\ outcome' = "raised"
    /\ UNCHANGED <<cls, cfg, model, inputs, layers, optimizer, compiled,
                   scope_enters, scope_exits, shape, pool_size, i>>

(* A library call inside the with-body raises: control leaves the body     *)
(* through the scope's __exit__.                                           *)
RaiseInScope(c, at) ==
    /\ cls = c /\ pc \in at /\ outcome = "running"
    /\ exc' = "Exception"
    /\ pc' = "exit"
    /\ UNCHANGED <<cls, cfg, model, inputs, layers, optimizer, compiled,
                   scope_enters, scope_exits, shape, pool_size, i, outcome>>

Fresh ==
    /\ model = "None" /\ inputs = <<>> /\ layers = <<>> /\ optimizer = <<>>
    /\ compiled = <<>> /\ scope_enters = 0 /\ scope_exits = 0
    /\ shape = <<0, 0>> /\ pool_size = <<0, 0>> /\ i = 0
    /\ exc = "None" /\ outcome = "running"

-----------------------------------------------------------------------------
(* baseline_nn_model                                                        *)

InitBaseline ==
    /\ cls = "baseline_nn_model"
    /\ cfg \in [number_pixels : 0..MaxPixels, lr : LrChoices,
                dropout : DropoutChoices]
    /\ pc = "scope"
    /\ Fresh

(* Variant of WantsDropout: a zero rate also adds the Dropout layers.        *)
WantsDropoutFromZero(dropout) == dropout >= 0

(* if(self.dropout > 0.) *)
WantsDropout(dropout) == dropout > 0

B_Scope == EnterScope("baseline_nn_model", "scope", "Sequential")

B_Sequential == NewSequential("baseline_nn_model", "Sequential", "Dense1")

B_Dense1 ==
    ModelAdd("baseline_nn_model", "Dense1", "Dropout1",
             Dense(cfg.number_pixels, <<cfg.number_pixels>>, "normal", "relu", ""))

B_Dropout1 ==
    /\ cls = "baseline_nn_model"
    /\ IF WantsDropout(cfg.dropout)
         THEN ModelAdd("baseline_nn_model", "Dropout1", "Dense2", Dropout(cfg.dropout))
         ELSE Skip("baseline_nn_model", "Dropout1", "Dense2")

B_Dense2 ==
    ModelAdd("baseline_nn_model", "Dense2", "Dropout2",
             Dense(cfg.number_pixels, <<>>, "default", "relu", ""))

B_Dropout2 ==
    /\ cls = "baseline_nn_model"
    /\ IF WantsDropout(cfg.dropout)
         THEN ModelAdd("baseline_nn_model", "Dropout2", "Dense3", Dropout(cfg.dropout))
         ELSE Skip("baseline_nn_model", "Dropout2", "Dense3")

B_Dense3 ==
    ModelAdd("baseline_nn_model", "Dense3", "Dropout3",
             Dense(HalfPixels(cfg.number_pixels), <<>>, "default", "relu", ""))

B_Dropout3 ==
    /\ cls = "baseline_nn_model"
    /\ IF WantsDropout(cfg.dropout)
         THEN ModelAdd("baseline_nn_model", "Dropout3", "Dense4", Dropout(cfg.dropout))
         ELSE Skip("baseline_nn_model", "Dropout3", "Dense4")

B_Dense4 ==
    ModelAdd("baseline_nn_model", "Dense4", "Adam",
             Dense(2, <<>>, "normal", "softmax", ""))

B_Adam == NewAdam("baseline_nn_model", "Adam", "compile")

B_Compile == ModelCompile("baseline_nn_model", "compile", "exit")

B_Raise ==
    /\ cls = "baseline_nn_model"
    /\ RaiseInScope("baseline_nn_model",
                    {"Sequential", "Dense1", "Dense2", "Dense3", "Dense4", "Adam",
                     "compile"}
                    \cup (IF WantsDropout(cfg.dropout)
                            THEN {"Dropout1", "Dropout2", "Dropout3"} ELSE {}))

B_Exit == ExitScope("baseline_nn_model")

B_Return == ReturnModel("baseline_nn_model")

NextBaseline ==
    \/ B_Scope \/ B_Sequential
    \/ B_Dense1 \/ B_Dropout1 \/ B_Dense2 \/ B_Dropout2
    \/ B_Dense3 \/ B_Dropout3 \/ B_Dense4
    \/ B_Adam \/ B_Compile \/ B_Raise \/ B_Exit \/ B_Return

SpecBaseline == InitBaseline /\ [][NextBaseline]_vars

-----------------------------------------------------------------------------
(* simple_combine_model                                                     *)

InitCombine ==
    /\ cls = "simple_combine_model"
    /\ cfg \in [n_input : 0..MaxInput, lr : LrChoices]
    /\ pc = "scope"
    /\ Fresh

S_Scope == EnterScope("simple_combine_model", "scope", "Sequential")

S_Sequential == NewSequential("simple_combine_model", "Sequential", "Dense1")

S_Dense1 ==
    ModelAdd("simple_combine_model", "Dense1", "Dense2",
             Dense(cfg.n_input, <<cfg.n_input>>, "normal", "relu", ""))

(* Variant of S_Dense2: the hidden width follows n_input.                   *)
S_Dense2FromInput ==
    ModelAdd("simple_combine_model", "Dense2", "Dense3",
             Dense(cfg.n_input, <<>>, "default", "relu", ""))

S_Dense2 ==
    ModelAdd("simple_combine_model", "Dense2", "Dense3",
             Dense(4, <<>>, "default", "relu", ""))

S_Dense3 ==
    ModelAdd("simple_combine_model", "Dense3", "Adam",
             Dense(2, <<>>, "normal", "softmax", ""))

S_Adam == NewAdam("simple_combine_model", "Adam", "compile")

S_Compile == ModelCompile("simple_combine_model", "compile", "exit")

S_Raise ==
    RaiseInScope("simple_combine_model",
                 {"Sequential", "Dense1", "Dense2", "Dense3", "Adam", "compile"})

S_Exit == ExitScope("simple_combine_model")

S_Return == ReturnModel("simple_combine_model")

NextCombine ==
    \/ S_Scope \/ S_Sequential \/ S_Dense1 \/ S_Dense2 \/ S_Dense3
    \/ S_Adam \/ S_Compile \/ S_Raise \/ S_Exit \/ S_Return

SpecCombine == InitCombine /\ [][NextCombine]_vars

-----------------------------------------------------------------------------
(* resnet                                                                   *)

Input(shp, name) == [layer |-> "Input", shape |-> shp, name |-> name]

ImageScaleBlock(target, normalization, name_prefix) ==
    [layer |-> "ImageScaleBlock", new_shape |-> target,
     normalization |-> normalization, name_prefix |-> name_prefix]

ZeroPadding2D(padding) == [layer |-> "ZeroPadding2D", padding |-> padding]

RandomFlip(name) == [layer |-> "RandomFlip", name |-> name]

Conv2D(filters, kernel_size, strides, name, kernel_initializer) ==
    [layer |-> "Conv2D", filters |-> filters, kernel_size |-> kernel_size,
     strides |-> strides, name |-> name,
     kernel_initializer |-> kernel_initializer]

BatchNormalization(axis, name) ==
    [layer |-> "BatchNormalization", axis |-> axis, name |-> name]

Activation(a) == [layer |-> "Activation", activation |-> a]

MaxPooling2D(pool, strides) ==
    [layer |-> "MaxPooling2D", pool_size |-> pool, strides |-> strides]

ConvolutionBlock(f, filters, stage, block, s, normalization) ==
    [layer |-> "ConvolutionBlock", f |-> f, filters |-> filters,
     stage |-> stage, block |-> block, s |-> s,
     normalization |-> normalization]

IdentityBlock(f, filters, stage, block, normalization) ==
    [layer |-> "IdentityBlock", f |-> f, filters |-> filters,
     stage |-> stage, block |-> block, normalization |-> normalization]

AveragePooling2D(pool, name) ==
    [layer |-> "AveragePooling2D", pool_size |-> pool, name |-> name]

Flatten == [layer |-> "Flatten"]

(* Output length of a 'valid' convolution or pooling window along one axis. *)
WindowOut(d, k, stride) == IF d < k THEN 0 ELSE ((d - k) \div stride) + 1

(* Output length of a ConvolutionBlock with stride s along one axis.        *)
BlockOutDim(d, s) == (d + s - 1) \div s

(* The configurations explored: every list is a prefix, of its own length, *)
(* of one of two catalogues (1: the ResNet50 layout, 2: wide kernels,      *)
(* stride 2 everywhere, long runs of identity blocks, lr 1e-3).            *)
Catalogues == {1, 2}

FilterSetAt(v, k) == <<64 * k * v, 64 * k * v, 256 * k * v>>

FValAt(v, k) == IF v = 1 THEN 3 ELSE 3 + 2 * (k % 2)

SValAt(v, k) == IF v = 1 /\ k = 1 THEN 1 ELSE 2

IValAt(v, k) == IF v = 1 THEN 1 + (k % 3) ELSE 24 + k

InputShapes == {<<128, 16>>, <<6, 16>>, <<6, 6>>, <<4, 16>>}

InitResnet ==
    /\ cls = "resnet"
    /\ \E v \in Catalogues :
       \E nf \in 0..MaxLen, nk \in 0..MaxLen, ns \in 0..MaxLen, ni \in 0..MaxLen :
       \E ch \in 0..MaxChannels, cl \in 1..MaxClasses, sh \in InputShapes :
       \E aug \in BOOLEAN, norm \in BOOLEAN :
          cfg = [filter_sets |-> [k \in 1..nf |-> FilterSetAt(v, k)],
                 f_vals |-> [k \in 1..nk |-> FValAt(v, k)],
                 s_vals |-> [k \in 1..ns |-> SValAt(v, k)],
                 i_vals |-> [k \in 1..ni |-> IValAt(v, k)],
                 channels |-> ch, lr |-> IF v = 1 THEN 5 ELSE 100,
                 input_shape |-> sh,
                 augmentation |-> aug, normalization |-> norm,
                 classes |-> cl]
    /\ pc = "Input"
    /\ Fresh

(* Variant of InputLayers: the names count from 1.                          *)
InputLayersFromOne(channels) ==
    [k \in 1..channels |-> Input(<<"None", "None", 1>>, "input" \o str(k))]

(* [Input((None,None,1),name='input'+str(i)) for i in range(channels)] *)
InputLayers(channels) ==
    [k \in 1..channels |-> Input(<<"None", "None", 1>>, "input" \o str(k - 1))]

(* Variant of ScaleBlock: the constructor's flag is passed on (the call the  *)
(* source keeps as a comment).                                             *)
ScaleBlockWithFlag(c) ==
    ImageScaleBlock(c.input_shape, c.normalization, "scaled_input_")

(* ImageScaleBlock(input_shape,normalization=True,name_prefix='scaled_input_') *)
ScaleBlock(c) == ImageScaleBlock(c.input_shape, TRUE, "scaled_input_")

(* Variant of Augmentation: the flip is applied whatever the flag.           *)
AugmentationAlways(augmentation) == <<RandomFlip("aug_reflect")>>

(* if(augmentation): X = RandomFlip(name='aug_reflect')(X) *)
Augmentation(augmentation) ==
    IF augmentation THEN <<RandomFlip("aug_reflect")>> ELSE <<>>

(* Variant of BlockLetter: block=ascii_lowercase[j].                         *)
BlockLetterFromA(j) == ascii_lowercase[j + 1]

(* block=ascii_lowercase[j+1], for the 0-based j                           *)
BlockLetter(j) == ascii_lowercase[(j + 1) + 1]

(* The ConvolutionBlock of stage i+1 followed by its IdentityBlocks.        *)
StageBlocks(c, k, ib) ==
    <<ConvolutionBlock(c.f_vals[k], c.filter_sets[k], k, "a", c.s_vals[k],
                       c.normalization)>>
    \o [j \in 1..ib |->
          IdentityBlock(c.f_vals[k], c.filter_sets[k], k, BlockLetter(j - 1),
                        c.normalization)]

(* Whether iteration i (0-based) of the stage loop raises IndexError: one  *)
(* of filter_sets, s_vals, i_vals has no element i, or ascii_lowercase has *)
(* no element j+1 for some j < ib.                                         *)
ListTooShort(c, k) ==
    k > Len(c.filter_sets) \/ k > Len(c.s_vals) \/ k > Len(c.i_vals)

LettersExhausted(ib) == ib > Len(ascii_lowercase) - 1

(* pool_size = (2,2); if(X.shape[1] == 1): (1,2) elif(X.shape[2] == 1): (2,1) *)
PoolSize(sh) ==
    IF sh[1] = 1 THEN <<1, 2>> ELSE IF sh[2] = 1 THEN <<2, 1>> ELSE <<2, 2>>

ResnetStep(from, to) == Goto("resnet", from, to)

R_Input ==
    /\ ResnetStep("Input", "ImageScaleBlock")
    /\ inputs' = InputLayers(cfg.channels)
    /\ UNCHANGED <<cls, cfg, model, layers, optimizer, compiled, scope_enters,
                   scope_exits, shape, pool_size, i, exc, outcome>>

R_ImageScaleBlock ==
    /\ ResnetStep("ImageScaleBlock", "ZeroPadding2D")
    /\ layers' = <<ScaleBlock(cfg)>>
    /\ shape' = cfg.input_shape
    /\ UNCHANGED <<cls, cfg, model, inputs, optimizer, compiled, scope_enters,
                   scope_exits, pool_size, i, exc, outcome>>

R_ZeroPadding2D ==
    /\ ResnetStep("ZeroPadding2D", "RandomFlip")
    /\ Add(ZeroPadding2D(<<3, 3>>))
    /\ shape' = <<shape[1] + 6, shape[2] + 6>>
    /\ UNCHANGED <<cls, cfg, model, inputs, optimizer, compiled, scope_enters,
                   scope_exits, pool_size, i, exc, outcome>>

R_RandomFlip ==
    /\ ResnetStep("RandomFlip", "Stage1")
    /\ layers' = layers \o Augmentation(cfg.augmentation)
    /\ UNCHANGED <<cls, cfg, model, inputs, optimizer, compiled, scope_enters,
                   scope_exits, shape, pool_size, i, exc, outcome>>

(* Stage 1: Conv2D, BatchNormalization, ReLU, MaxPooling2D.  The pooling    *)
(* raises when its 3x3 window does not fit.                                *)
R_Stage1 ==
    /\ cls = "resnet" /\ pc = "Stage1" /\ outcome = "running"
    /\ LET conv == <<WindowOut(shape[1], 7, 2), WindowOut(shape[2], 7, 2)>>
           pool == <<WindowOut(conv[1], 3, 2), WindowOut(conv[2], 3, 2)>>
           upto == <<Conv2D(64, <<7, 7>>, <<2, 2>>, "conv1", "glorot_uniform(seed=0)"),
                     BatchNormalization(3, "bn_conv1"),
                     Activation("relu")>>
       IN  IF pool[1] >= 1 /\ pool[2] >= 1
             THEN /\ layers' = layers \o upto \o <<MaxPooling2D(<<3, 3>>, <<2, 2>>)>>
                  /\ shape' = pool
                  /\ pc' = "loop"
                  /\ UNCHANGED <<exc, outcome>>
             ELSE /\ layers' = layers \o upto
                  /\ shape' = conv
                  /\ pc' = "done"
                  /\ exc' = "ValueError"
                  /\ outcome' = "raised"
    /\ i' = 0
    /\ UNCHANGED <<cls, cfg, model, inputs, optimizer, compiled, scope_enters,
                   scope_exits, pool_size>>

(* One iteration of for i in range(n), n = len(f_vals), that completes.     *)
R_Block ==
    /\ cls = "resnet" /\ pc = "loop" /\ outcome = "running"
    /\ i < Len(cfg.f_vals)
    /\ ~ListTooShort(cfg, i + 1)
    /\ ~LettersExhausted(cfg.i_vals[i + 1])
    /\ layers' = layers \o StageBlocks(cfg, i + 1, cfg.i_vals[i + 1])
    /\ shape' = <<BlockOutDim(shape[1], cfg.s_vals[i + 1]),
                  BlockOutDim(shape[2], cfg.s_vals[i + 1])>>
    /\ i' = i + 1
    /\ UNCHANGED <<cls, cfg, pc, model, inputs, optimizer, compiled,
                   scope_enters, scope_exits, pool_size, exc, outcome>>

(* One iteration that raises IndexError: at filter_sets[i], s_vals[i] or   *)
(* i_vals[i] before any block of the stage is built, or at                 *)
(* ascii_lowercase[j+1] after the blocks 'a' .. 'z' of the stage.          *)
R_BlockIndexError ==
    /\ cls = "resnet" /\ pc = "loop" /\ outcome = "running"
    /\ i < Len(cfg.f_vals)
    /\ IF ListTooShort(cfg, i + 1)
         THEN UNCHANGED <<layers, shape>>
         ELSE /\ LettersExhausted(cfg.i_vals[i + 1])
              /\ layers' = layers \o StageBlocks(cfg, i + 1, Len(ascii_lowercase) - 1)
              /\ shape' = <<BlockOutDim(shape[1], cfg.s_vals[i + 1]),
                            BlockOutDim(shape[2], cfg.s_vals[i + 1])>>
    /\ exc' = "IndexError"
    /\ outcome' = "raised"
    /\ pc' = "done"
    /\ UNCHANGED <<cls, cfg, model, inputs, optimizer, compiled, scope_enters,
                   scope_exits, pool_size, i>>

R_PoolSize ==
    /\ cls = "resnet" /\ pc = "loop" /\ outcome = "running"
    /\ i >= Len(cfg.f_vals)
    /\ pool_size' = PoolSize(shape)
    /\ pc' = "AveragePooling2D"
    /\ UNCHANGED <<cls, cfg, model, inputs, layers, optimizer, compiled,
                   scope_enters, scope_exits, shape, i, exc, outcome>>

(* AveragePooling2D(pool_size=pool_size, name="avg_pool"); the layer raises *)
(* when the window does not fit the feature map.                           *)
R_AveragePooling2D ==
    /\ cls = "resnet" /\ pc = "AveragePooling2D" /\ outcome = "running"
    /\ LET out == <<WindowOut(shape[1], pool_size[1], pool_size[1]),
                    WindowOut(shape[2], pool_size[2], pool_size[2])>>
       IN  IF out[1] >= 1 /\ out[2] >= 1
             THEN /\ Add(AveragePooling2D(pool_size, "avg_pool"))
                  /\ shape' = out
                  /\ pc' = "output"
                  /\ UNCHANGED <<exc, outcome>>
             ELSE /\ pc' = "done"
                  /\ exc' = "ValueError"
                  /\ outcome' = "raised"
                  /\ UNCHANGED <<layers, shape>>
    /\ UNCHANGED <<cls, cfg, model, inputs, optimizer, compiled, scope_enters,
                   scope_exits, pool_size, i>>

(* Flatten, then Dense(classes, softmax, name='fc'+str(classes)) *)
R_Output ==
    /\ ResnetStep("output", "Model")
    /\ layers' = layers \o <<Flatten,
                             Dense(cfg.classes, <<>>, "glorot_uniform(seed=0)",
                                   "softmax", "fc" \o str(cfg.classes))>>
    /\ UNCHANGED <<cls, cfg, model, inputs, optimizer, compiled, scope_enters,
                   scope_exits, shape, pool_size, i, exc, outcome>>

(* model = Model(inputs=inputs, outputs=X, name='ResNet50') *)
R_Model ==
    /\ ResnetStep("Model", "Adam")
    /\ model' = "ResNet50"
    /\ UNCHANGED <<cls, cfg, inputs, layers, optimizer, compiled, scope_enters,
                   scope_exits, shape, pool_size, i, exc, outcome>>

R_Adam == NewAdam("resnet", "Adam", "compile")

R_Compile == ModelCompile("resnet", "compile", "return")

R_Return == ReturnModel("resnet")

NextResnet ==
    \/ R_Input \/ R_ImageScaleBlock \/ R_ZeroPadding2D \/ R_RandomFlip
    \/ R_Stage1 \/ R_Block \/ R_BlockIndexError \/ R_PoolSize
    \/ R_AveragePooling2D \/ R_Output \/ R_Model \/ R_Adam \/ R_Compile
    \/ R_Return

SpecResnet == InitResnet /\ [][NextResnet]_vars

-----------------------------------------------------------------------------
(* The three factories together.                                           *)

Init == InitBaseline \/ InitResnet \/ InitCombine

Next == NextBaseline \/ NextResnet \/ NextCombine

Spec == Init /\ [][Next]_vars

-----------------------------------------------------------------------------
(* Properties.                                                              *)

IsDenseWith(l, units, activation) ==
    l.layer = "Dense" /\ l.units = units /\ l.activation = activation

IsDropoutWith(l, rate) == l.layer = "Dropout" /\ l.rate = rate

IsResidualBlock(l) == l.layer \in {"ConvolutionBlock", "IdentityBlock"}

IsNotFlip(l) == l.layer /= "RandomFlip"

IsFlip(l) == l.layer = "RandomFlip"

IsConvBlock(l) == l.layer = "ConvolutionBlock"

IsIdentityBlock(l) == l.layer = "IdentityBlock"

IsDense(l) == l.layer = "Dense"

CompiledWithAdam ==
    /\ Len(compiled) = 1
    /\ compiled[1].loss = "categorical_crossentropy"
    /\ compiled[1].optimizer = [optimizer |-> "Adam", lr |-> cfg.lr]

(* The complete baseline network for the configured number_pixels/dropout. *)
BaselineComplete ==
    LET p == cfg.number_pixels
        d == cfg.dropout
    IN  IF d > 0
          THEN /\ Len(layers) = 7
               /\ IsDenseWith(layers[1], p, "relu")
               /\ IsDropoutWith(layers[2], d)
               /\ IsDenseWith(layers[3], p, "relu")
               /\ IsDropoutWith(layers[4], d)
               /\ IsDenseWith(layers[5], p \div 2, "relu")
               /\ IsDropoutWith(layers[6], d)
               /\ IsDenseWith(layers[7], 2, "softmax")
          ELSE /\ Len(layers) = 4
               /\ IsDenseWith(layers[1], p, "relu")
               /\ IsDenseWith(layers[2], p, "relu")
               /\ IsDenseWith(layers[3], p \div 2, "relu")
               /\ IsDenseWith(layers[4], 2, "softmax")

(* C1: baseline_nn_model.model() returns the sequence Dense(p, relu),       *)
(* Dense(p, relu), Dense(int(p/2), relu), Dense(2, softmax) with a          *)
(* Dropout(dropout) after each of the first three exactly when dropout > 0  *)
(* (3 Dropout layers, or none); softmax is last; the model is compiled      *)
(* once, only when all layers are in place, with categorical cross-entropy  *)
(* and Adam at the configured lr.                                           *)
C1_BaselineLayers ==
    cls = "baseline_nn_model" =>
        /\ Len(compiled) <= 1
        /\ compiled /= <<>> => (BaselineComplete /\ CompiledWithAdam)
        /\ outcome = "returned" =>
             /\ BaselineComplete
             /\ CompiledWithAdam
             /\ Len(SelectSeq(layers, IsDense)) = 4
             /\ Len(layers) - 4 = (IF cfg.dropout > 0 THEN 3 ELSE 0)
             /\ layers[Len(layers)].activation = "softmax"

C1_Witness ==
    /\ cls = "baseline_nn_model" /\ outcome = "returned"
    /\ cfg.dropout > 0 /\ cfg.number_pixels = 5
    /\ Len(layers) = 7

(* Number of residual blocks of the stages before stage k.                  *)
RECURSIVE BlocksBefore(_, _)
BlocksBefore(iv, k) ==
    IF k <= 1 THEN 0 ELSE BlocksBefore(iv, k - 1) + 1 + iv[k - 1]

ResidualBlocks == SelectSeq(layers, IsResidualBlock)

EqualLengths ==
    /\ Len(cfg.filter_sets) = Len(cfg.f_vals)
    /\ Len(cfg.s_vals) = Len(cfg.f_vals)
    /\ Len(cfg.i_vals) = Len(cfg.f_vals)

(* C2: with equal-length lists and every i_vals[k] in 0..25, resnet.model() *)
(* stacks, for each stage in increasing order, one ConvolutionBlock (f,     *)
(* filters, s of the stage, block 'a') immediately followed by i_vals[k]    *)
(* IdentityBlocks (same f, filters, stage; letters 'b', 'c', ...): n        *)
(* ConvolutionBlocks and sum(i_vals) IdentityBlocks in all, each carrying   *)
(* the normalization flag, no two with the same (stage, letter).  The       *)
(* statement is made of the stages built so far (i of them), and of all n   *)
(* once the loop is left.                                                   *)
C2_BlockOrder ==
    (/\ cls = "resnet"
     /\ EqualLengths
     /\ \A k \in 1..Len(cfg.i_vals) : cfg.i_vals[k] \in 0..25) =>
        LET B == ResidualBlocks
            iv == cfg.i_vals
        IN  /\ pool_size /= <<0, 0>> => i = Len(cfg.f_vals)
            /\ outcome = "returned" => i = Len(cfg.f_vals)
            /\ Len(B) = BlocksBefore(iv, i + 1)
            /\ Len(SelectSeq(layers, IsConvBlock)) = i
            /\ Len(SelectSeq(layers, IsIdentityBlock)) = BlocksBefore(iv, i + 1) - i
            /\ \A k \in 1..i :
                 LET o == BlocksBefore(iv, k)
                 IN  /\ B[o + 1].layer = "ConvolutionBlock"
                     /\ B[o + 1].f = cfg.f_vals[k]
                     /\ B[o + 1].filters = cfg.filter_sets[k]
                     /\ B[o + 1].s = cfg.s_vals[k]
                     /\ B[o + 1].stage = k
                     /\ B[o + 1].block = "a"
                     /\ B[o + 1].normalization = cfg.normalization
                     /\ \A j \in 1..iv[k] :
                          /\ B[o + 1 + j].layer = "IdentityBlock"
                          /\ B[o + 1 + j].f = cfg.f_vals[k]
                          /\ B[o + 1 + j].filters = cfg.filter_sets[k]
                          /\ B[o + 1 + j].stage = k
                          /\ B[o + 1 + j].block = ascii_lowercase[j + 1]
                          /\ B[o + 1 + j].normalization = cfg.normalization
            /\ \A a \in 1..Len(B), b \in 1..Len(B) :
                 a /= b => <<B[a].stage, B[a].block>> /= <<B[b].stage, B[b].block>>

C2_Witness ==
    /\ cls = "resnet" /\ outcome = "returned" /\ EqualLengths
    /\ Len(cfg.f_vals) = 2 /\ cfg.i_vals[1] >= 2 /\ cfg.i_vals[2] >= 2
    /\ Len(ResidualBlocks) = 2 + cfg.i_vals[1] + cfg.i_vals[2]

(* C3: whenever the four lists do not all have the same length,             *)
(* resnet.model() ends in an exception and returns no model.                *)
C3_MismatchRaises ==
    (cls = "resnet" /\ ~EqualLengths /\ pc = "done") => outcome = "raised"

(* The layers of resnet.model() with any RandomFlip left out.              *)
WithoutFlip == SelectSeq(layers, IsNotFlip)

(* C4: the returned resnet applies ImageScaleBlock, ZeroPadding2D((3,3)),   *)
(* RandomFlip exactly when augmentation is set, Conv2D(64, 7x7, stride 2),  *)
(* BatchNormalization, ReLU, MaxPooling2D(3x3, stride 2), the residual      *)
(* blocks, AveragePooling2D, Flatten, softmax Dense, in this order.  There  *)
(* is never more than one RandomFlip, it never follows a convolution, and   *)
(* leaving it out gives the sequence built without augmentation.            *)
C4_LayerOrder ==
    cls = "resnet" =>
        LET W == WithoutFlip
            n == Len(W)
            flips == Len(SelectSeq(layers, IsFlip))
        IN  /\ flips <= 1
            /\ flips = 1 => (cfg.augmentation /\ layers[3] = RandomFlip("aug_reflect"))
            /\ \A a \in 1..Len(layers), b \in 1..Len(layers) :
                 (layers[a].layer \in {"Conv2D", "ConvolutionBlock", "IdentityBlock"}
                  /\ layers[b].layer = "RandomFlip") => b < a
            /\ outcome = "returned" =>
                 /\ flips = (IF cfg.augmentation THEN 1 ELSE 0)
                 /\ Len(layers) = n + flips
                 /\ n >= 9
                 /\ W[1].layer = "ImageScaleBlock"
                 /\ W[2] = [layer |-> "ZeroPadding2D", padding |-> <<3, 3>>]
                 /\ W[3].layer = "Conv2D" /\ W[3].filters = 64
                 /\ W[3].kernel_size = <<7, 7>> /\ W[3].strides = <<2, 2>>
                 /\ W[4].layer = "BatchNormalization"
                 /\ W[5] = [layer |-> "Activation", activation |-> "relu"]
                 /\ W[6] = [layer |-> "MaxPooling2D", pool_size |-> <<3, 3>>,
                            strides |-> <<2, 2>>]
                 /\ \A k \in 7..(n - 3) : IsResidualBlock(W[k])
                 /\ SubSeq(W, 7, n - 3) = ResidualBlocks
                 /\ W[n - 2].layer = "AveragePooling2D"
                 /\ W[n - 1].layer = "Flatten"
                 /\ W[n].layer = "Dense" /\ W[n].activation = "softmax"

C4_Witness ==
    /\ cls = "resnet" /\ outcome = "returned" /\ cfg.augmentation
    /\ Len(cfg.f_vals) >= 1
    /\ layers[3].layer = "RandomFlip"
    /\ Len(ResidualBlocks) >= 2

InputNames == <<"input0", "input1", "input2", "input3", "input4", "input5",
                "input6", "input7", "input8", "input9", "input10", "input11">>

OutputNames == <<"fc1", "fc2", "fc3", "fc4", "fc5", "fc6", "fc7", "fc8",
                 "fc9", "fc10", "fc11", "fc12">>

(* C5: for channels >= 0 and classes >= 1 the returned resnet has exactly   *)
(* `channels` inputs named input0 .. input(channels-1), pairwise distinct,  *)
(* each of shape (None, None, 1), and its output is the softmax Dense layer *)
(* of `classes` units named 'fc'+str(classes), whatever the rest of the     *)
(* configuration is.                                                        *)
C5_InputsAndOutput ==
    (/\ cls = "resnet" /\ outcome = "returned"
     /\ cfg.channels <= Len(InputNames) /\ cfg.classes <= Len(OutputNames)) =>
        /\ model = "ResNet50"
        /\ Len(inputs) = cfg.channels
        /\ \A k \in 1..Len(inputs) :
             /\ inputs[k].layer = "Input"
             /\ inputs[k].name = InputNames[k]
             /\ inputs[k].shape = <<"None", "None", 1>>
        /\ \A a \in 1..Len(inputs), b \in 1..Len(inputs) :
             a /= b => inputs[a].name /= inputs[b].name
        /\ IsDenseWith(layers[Len(layers)], cfg.classes, "softmax")
        /\ layers[Len(layers)].name = OutputNames[cfg.classes]
        /\ Len(SelectSeq(layers, IsDense)) = 1

C5_Witness ==
    /\ cls = "resnet" /\ outcome = "returned"
    /\ cfg.channels = 2 /\ cfg.classes = 2
    /\ Len(inputs) = 2 /\ Len(cfg.f_vals) >= 1

CombineComplete ==
    /\ Len(layers) = 3
    /\ IsDenseWith(layers[1], cfg.n_input, "relu")
    /\ layers[1].input_dim = <<cfg.n_input>>
    /\ IsDenseWith(layers[2], 4, "relu")
    /\ IsDenseWith(layers[3], 2, "softmax")

(* C6: simple_combine_model.model() builds exactly three Dense layers:      *)
(* width n_input (ReLU, input width n_input), width 4 (ReLU), width 2       *)
(* (softmax), and compiles once, after the last layer, with categorical     *)
(* cross-entropy and Adam at the configured lr.                             *)
C6_CombineLayers ==
    cls = "simple_combine_model" =>
        /\ Len(compiled) <= 1
        /\ Len(layers) <= 3
        /\ compiled /= <<>> => (CombineComplete /\ CompiledWithAdam)
        /\ outcome = "returned" => (CombineComplete /\ CompiledWithAdam)

C6_Witness ==
    /\ cls = "simple_combine_model" /\ outcome = "returned"
    /\ cfg.n_input = 6 /\ Len(layers) = 3

(* C7: the ImageScaleBlock of resnet.model() is built with normalization    *)
(* enabled and the configured input_shape as target size, whatever the      *)
(* normalization flag; the flag reaches the ConvolutionBlock and            *)
(* IdentityBlock layers and no other layer.                                 *)
C7_ScaleBlockNormalized ==
    (cls = "resnet" /\ layers /= <<>>) =>
        /\ layers[1].layer = "ImageScaleBlock"
        /\ layers[1].normalization = TRUE
        /\ layers[1].new_shape = cfg.input_shape
        /\ \A k \in 2..Len(layers) :
             /\ layers[k].layer /= "ImageScaleBlock"
             /\ IsResidualBlock(layers[k]) =>
                  layers[k].normalization = cfg.normalization
             /\ ~IsResidualBlock(layers[k]) =>
                  "normalization" \notin DOMAIN layers[k]

C7_Witness ==
    /\ cls = "resnet" /\ outcome = "returned" /\ cfg.normalization = FALSE
    /\ layers[1].normalization = TRUE
    /\ Len(ResidualBlocks) >= 2

ScopedClasses == {"baseline_nn_model", "simple_combine_model"}

ScopeBody == {"Sequential", "Dense1", "Dropout1", "Dense2", "Dropout2",
              "Dense3", "Dropout3", "Dense4", "Adam", "compile"}

ScopeDiscipline ==
    /\ cls \in ScopedClasses =>
         /\ scope_enters <= 1 /\ scope_exits <= scope_enters
         /\ model /= "None" => scope_enters = 1
         /\ pc \in ScopeBody => ScopeOpen
         /\ pc \in {"return", "done"} => (scope_enters = 1 /\ scope_exits = 1)
    /\ cls = "resnet" => (scope_enters = 0 /\ scope_exits = 0)

(* C8: baseline_nn_model.model() and simple_combine_model.model() enter the *)
(* strategy scope once, before the Sequential model exists; the model, its  *)
(* layers, the optimizer and the compile call are made only while the scope *)
(* is open; the scope is left exactly once before model() returns or lets   *)
(* an exception out; resnet.model() enters no scope.                        *)
C8_ScopeDiscipline ==
    [][/\ ScopeDiscipline
       /\ ScopeDiscipline'
       /\ (cls \in ScopedClasses /\
           (model' /= model \/ layers' /= layers \/ optimizer' /= optimizer
            \/ compiled' /= compiled)) => (ScopeOpen /\ ScopeOpen')
       /\ outcome' /= outcome => (cls \in ScopedClasses => ~ScopeOpen')]_vars

C8_Witness ==
    /\ cls = "baseline_nn_model" /\ outcome = "raised"
    /\ scope_enters = 1 /\ scope_exits = 1 /\ Len(layers) >= 2

(* C9: the average-pool window chosen for a feature map of height h >= 1    *)
(* and width w >= 1 fits inside it.                                         *)
C9_PoolWindowFits ==
    (cls = "resnet" /\ pc = "AveragePooling2D" /\ shape[1] >= 1 /\ shape[2] >= 1) =>
        (pool_size[1] <= shape[1] /\ pool_size[2] <= shape[2])

(* C10 as stated: for number_pixels >= 1 every Dense layer of the baseline  *)
(* network has at least one unit.                                           *)
C10_AllWidthsPositive ==
    (cls = "baseline_nn_model" /\ cfg.number_pixels >= 1) =>
        \A k \in 1..Len(layers) : IsDense(layers[k]) => layers[k].units >= 1

(* C10 amended: for number_pixels >= 1 the widths number_pixels,            *)
(* number_pixels and 2 are >= 1, and the third width int(number_pixels/2)   *)
(* is >= 1 exactly when number_pixels >= 2 (it is 0 for number_pixels = 1). *)
C10_WidthsPositiveFromTwo ==
    (cls = "baseline_nn_model" /\ cfg.number_pixels >= 1) =>
        LET D == SelectSeq(layers, IsDense)
        IN  \A k \in 1..Len(D) :
              IF k = 3 THEN (D[k].units >= 1 <=> cfg.number_pixels >= 2)
                            /\ D[k].units >= 0
                       ELSE D[k].units >= 1

C10_Witness ==
    /\ cls = "baseline_nn_model" /\ outcome = "returned"
    /\ cfg.number_pixels = 2
    /\ Len(SelectSeq(layers, IsDense)) = 4

====
